---- MODULE Spec2Model ----
(***************************************************************************)
(* Model of src/gravity.cu: the updateStars kernel (one GPU thread per     *)
(* particle index, all threads sharing the managed Star buffer) and the    *)
(* main loop that polls events, launches the kernel, waits for the device  *)
(* and draws the particles.                                                *)
(*                                                                         *)
(* Arithmetic.  The program computes in 32-bit floats, and so does the     *)
(* model: a float is the pair <<m, e>> that stands for m * 2^e, with a     *)
(* signed significand m of 24 bits (2^23 <= |m| < 2^24), <<0, 0>> for zero *)
(* and three pairs for +infinity, -infinity and NaN.  +, *, / and sqrtf    *)
(* round to the nearest float, ties to the even significand, and treat     *)
(* infinities and NaN as IEEE 754 does; a result too large for a float is  *)
(* an infinity.  Every operation rounds by itself (no fused multiply-add). *)
(* Left out: the sign of zero, and subnormal results (no run followed here *)
(* comes near 1e-38).  Lengths, times and masses are in the units of the   *)
(* source.                                                                 *)
(*                                                                         *)
(* A never-initialised float is any value of a small set holding in-range, *)
(* out-of-range and NaN representatives.                                   *)
(*                                                                         *)
(* Sizes.  main's 25500 particles and 512 threads per block are scaled     *)
(* down to MainStars and numThreads.                                       *)
(***************************************************************************)
EXTENDS Integers, Sequences, FiniteSets, TLC

\* ------------------------------------------------------------------ bounds
\* Largest store the kernel is run on by itself (it takes numStars as a parameter).
MaxStars == 2
\* Largest store of the runs that follow one launch on three or more particles.
MaxPairStars == 3
\* Kernel launches explored when the kernel is run by itself.
KernelTicks == 1
\* Kernel launches explored in one run of main in which quit is not set (the pass
\* in which quit is set makes one more).
MaxTicks == 1
\* Input events delivered in one run of main.
MaxEvents == 1
\* Input events delivered when the main loop is run for its event handling.
CameraEvents == 3

\* ------------------------------------------------- sizes of the source, scaled
\* Threads per block of the launch (512 in the source, line 86).
numThreads == 3
\* Store size of main (25500 in the source, line 61).
MainStars == 2

\* ------------------------------------------------------------------ float
\* The significand has 24 bits; the exponent of the least bit of a normal float runs
\* from -149 to 104.
MantBits == 24
MaxExp == 104
SpecialExp == 1000

NaN == <<0, SpecialExp>>
Inf == <<1, SpecialExp>>
NegInf == <<0 - 1, SpecialExp>>
Zero == <<0, 0>>

IsNaN(a) == a = NaN
IsInf(a) == a = Inf \/ a = NegInf
IsFinite(a) == a[2] # SpecialExp

Abs(n) == IF n < 0 THEN 0 - n ELSE n
Sgn(n) == IF n < 0 THEN 0 - 1 ELSE IF n > 0 THEN 1 ELSE 0

\* Least L in p[2] .. p[3] with p[1] < 2^L.
BitLenIn[p \in Int \X Int \X Int] ==
    IF p[2] >= p[3] THEN p[2]
    ELSE LET mid == (p[2] + p[3]) \div 2
         IN  IF p[1] < 2 ^ mid THEN BitLenIn[<<p[1], p[2], mid>>]
             ELSE BitLenIn[<<p[1], mid + 1, p[3]>>]

\* The float of sign p[1] nearest to p[2] * 2^p[3] (p[2] >= 0), ties to the even
\* significand; p[4] = 1 says the exact value is a little above p[2] * 2^p[3].
\* L is the bit length of p[2], sh the shift that brings it to 24 bits; a
\* significand that rounding carries up to 2^24 takes the next exponent, and a
\* result past the largest exponent is an infinity.
RoundPack[p \in Int \X Int \X Int \X Int] ==
    IF p[2] = 0 THEN Zero
    ELSE LET L == IF p[2] >= 2 ^ 27
                  THEN (IF p[2] >= 2 ^ 29 THEN (IF p[2] >= 2 ^ 30 THEN 31 ELSE 30)
                        ELSE IF p[2] >= 2 ^ 28 THEN 29 ELSE 28)
                  ELSE IF p[2] >= 2 ^ 24
                  THEN (IF p[2] >= 2 ^ 26 THEN 27 ELSE IF p[2] >= 2 ^ 25 THEN 26 ELSE 25)
                  ELSE BitLenIn[<<p[2], 1, 24>>]
             sh == L - MantBits
         IN  IF sh <= 0
             THEN <<p[1] * p[2] * (2 ^ (0 - sh)), p[3] + sh>>
             ELSE LET q == p[2] \div (2 ^ sh)
                      r == p[2] % (2 ^ sh)
                      half == 2 ^ (sh - 1)
                      m == IF r > half \/ (r = half /\ (p[4] = 1 \/ q % 2 = 1))
                           THEN q + 1 ELSE q
                  IN  IF m = 2 ^ MantBits
                      THEN (IF p[3] + sh + 1 > MaxExp THEN <<p[1], SpecialExp>>
                            ELSE <<p[1] * (2 ^ (MantBits - 1)), p[3] + sh + 1>>)
                      ELSE IF p[3] + sh > MaxExp THEN <<p[1], SpecialExp>>
                      ELSE <<p[1] * m, p[3] + sh>>

\* int -> float conversion
ToFloat(n) == RoundPack[<<Sgn(n), Abs(n), 0, 0>>]

FNegF[a \in Int \X Int] == <<0 - a[1], a[2]>>
FNeg(a) == FNegF[a]

\* a < b
FLtF[p \in (Int \X Int) \X (Int \X Int)] ==
    LET a == p[1]
        b == p[2]
        sa == Sgn(a[1])
        sb == Sgn(b[1])
    IN  IF a = NaN \/ b = NaN THEN FALSE
        ELSE IF sa # sb THEN sa < sb
        ELSE IF sa = 0 THEN FALSE
        ELSE IF sa > 0 THEN a[2] < b[2] \/ (a[2] = b[2] /\ a[1] < b[1])
        ELSE a[2] > b[2] \/ (a[2] = b[2] /\ a[1] < b[1])
FLt(a, b) == FLtF[<<a, b>>]
FLe(a, b) == FLtF[<<a, b>>] \/ (a = b /\ a # NaN)

\* float + float
FAddF[p \in (Int \X Int) \X (Int \X Int)] ==
    LET a == p[1]
        b == p[2]
    IN  IF a = NaN \/ b = NaN THEN NaN
        ELSE IF IsInf(a) THEN (IF IsInf(b) /\ b # a THEN NaN ELSE a)
        ELSE IF IsInf(b) THEN b
        ELSE IF a[1] = 0 THEN b
        ELSE IF b[1] = 0 THEN a
        ELSE LET big == IF a[2] >= b[2] THEN a ELSE b
                 small == IF a[2] >= b[2] THEN b ELSE a
                 d == big[2] - small[2]
             IN  IF d > MantBits + 3 THEN big
                 ELSE LET A == Abs(big[1]) * 8
                          B == (Abs(small[1]) * 8) \div (2 ^ d)
                          st == IF (Abs(small[1]) * 8) % (2 ^ d) = 0 THEN 0 ELSE 1
                          same == Sgn(big[1]) = Sgn(small[1])
                          S == IF same THEN A + B ELSE A - B - st
                      IN  IF S = 0 /\ st = 0 THEN Zero
                          ELSE RoundPack[<<Sgn(big[1]) * Sgn(S + st), Abs(S), big[2] - 3, st>>]
FAdd(a, b) == FAddF[<<a, b>>]
FSub(a, b) == FAddF[<<a, FNeg(b)>>]

\* float * float
FMulF[p \in (Int \X Int) \X (Int \X Int)] ==
    LET a == p[1]
        b == p[2]
        s == Sgn(a[1]) * Sgn(b[1])
    IN  IF a = NaN \/ b = NaN THEN NaN
        ELSE IF IsInf(a) \/ IsInf(b) THEN (IF s = 0 THEN NaN ELSE <<s, SpecialExp>>)
        ELSE IF s = 0 THEN Zero
        ELSE LET ah == Abs(a[1]) \div 4096
                 al == Abs(a[1]) % 4096
                 bh == Abs(b[1]) \div 4096
                 bl == Abs(b[1]) % 4096
                 lo == al * bl
                 s1 == (ah * bl) + (al * bh) + (lo \div 4096)
                 H == (ah * bh) + (s1 \div 4096)
                 Lw == ((s1 % 4096) * 4096) + (lo % 4096)
             IN  RoundPack[<<s, (H * 32) + (Lw \div (2 ^ 19)), a[2] + b[2] + 19,
                             IF Lw % (2 ^ 19) = 0 THEN 0 ELSE 1>>]
Mul(a, b) == FMulF[<<a, b>>]

\* Long division, 7 quotient bits a step: p = <<remainder, quotient, divisor, steps left>>.
DivSteps[p \in Int \X Int \X Int \X Int] ==
    IF p[4] = 0 THEN <<p[2], p[1]>>
    ELSE DivSteps[<<(p[1] * 128) % p[3], (p[2] * 128) + ((p[1] * 128) \div p[3]), p[3],
                    p[4] - 1>>]

\* float / float
FDivF[p \in (Int \X Int) \X (Int \X Int)] ==
    LET a == p[1]
        b == p[2]
        s == Sgn(a[1]) * (IF b[1] < 0 THEN 0 - 1 ELSE 1)
    IN  IF a = NaN \/ b = NaN THEN NaN
        ELSE IF IsInf(a) THEN (IF IsInf(b) THEN NaN ELSE <<s, SpecialExp>>)
        ELSE IF IsInf(b) THEN Zero
        ELSE IF b[1] = 0 THEN (IF a[1] = 0 THEN NaN ELSE <<s, SpecialExp>>)
        ELSE IF a[1] = 0 THEN Zero
        ELSE LET ma == Abs(a[1])
                 mb == Abs(b[1])
                 qr == DivSteps[<<ma % mb, ma \div mb, mb, 4>>]
             IN  RoundPack[<<s, qr[1], a[2] - b[2] - 28, IF qr[2] = 0 THEN 0 ELSE 1>>]
Div(a, b) == FDivF[<<a, b>>]

\* The integer square root of p[1] by Newton's iteration from p[2], which is not
\* below the root.
IntRoot[p \in Int \X Int] ==
    LET y == (p[2] + (p[1] \div p[2])) \div 2
    IN  IF y >= p[2] THEN p[2] ELSE IntRoot[<<p[1], y>>]

\* Further bits of a square root, one a step: p = <<bits left, remainder, root>>.
SqrtSteps[p \in Int \X Int \X Int] ==
    IF p[1] = 0 THEN <<p[3], p[2]>>
    ELSE IF p[2] * 4 >= (p[3] * 4) + 1
    THEN SqrtSteps[<<p[1] - 1, (p[2] * 4) - ((p[3] * 4) + 1), (p[3] * 2) + 1>>]
    ELSE SqrtSteps[<<p[1] - 1, p[2] * 4, p[3] * 2>>]

\* The root of the significand p[1] (2^23 <= p[1] < 2^25) to 26 bits, packed with
\* the exponent p[2].
SqrtPack[p \in Int \X Int] ==
    LET r == IntRoot[<<p[1], 5793>>]
        rr == SqrtSteps[<<13, p[1] - (r * r), r>>]
    IN  RoundPack[<<1, rr[1], p[2], IF rr[2] = 0 THEN 0 ELSE 1>>]

\* sqrtf
FSqrtF[a \in Int \X Int] ==
    IF a = NaN \/ a[1] < 0 THEN NaN
    ELSE IF a = Inf THEN Inf
    ELSE IF a[1] = 0 THEN Zero
    ELSE IF a[2] % 2 # 0 THEN SqrtPack[<<a[1] * 2, ((a[2] - 1) \div 2) - 13>>]
    ELSE SqrtPack[<<a[1], (a[2] \div 2) - 13>>]
Sqrt(a) == FSqrtF[a]

\* CUDA max(float, float) and min(float, float): a NaN operand is dropped
fmax(a, b) == IF a = NaN THEN b ELSE IF b = NaN THEN a ELSE IF FLt(a, b) THEN b ELSE a
fmin(a, b) == IF a = NaN THEN b ELSE IF b = NaN THEN a ELSE IF FLt(b, a) THEN b ELSE a

\* -------------------------------------------------------- program constants
SCREEN_WIDTH == 900
SCREEN_HEIGHT == 900
\* 0.31f
dt == <<10401874, -25>>
\* 6.67408e-11 as a float
G == <<9618363, -57>>
\* 26.44e12 as a float
CENTRAL_MASS == <<12607574, 21>>
\* 1e-5f
MAX_FORCE == <<10995116, -40>>
\* 0.1f
MIN_BRIGHTNESS == <<13421773, -27>>
\* 1.0f, the upper clamp of line 44
MAX_BRIGHTNESS == <<8388608, -23>>
\* 1e-5f, the literals of lines 39 and 41
EPS_DIST == <<10995116, -40>>
EPS_SQ == <<10995116, -40>>
\* 1.01f, the zoom factor of lines 125 and 128
ZOOM_STEP == <<8472494, -23>>

\* 1, 2, 0.5 and 2.5 as floats
One == ToFloat(1)
Two == ToFloat(2)
Half == Div(ToFloat(1), ToFloat(2))
TwoAndHalf == Div(ToFloat(5), ToFloat(2))

Star(x, y, mass, vx, vy, brightness, opacity) ==
    [x |-> x, y |-> y, mass |-> mass, vx |-> vx, vy |-> vy,
     brightness |-> brightness, opacity |-> opacity]

\* An SDL_Event as far as main reads it: its type, button.button, the x and y of a
\* button, motion or wheel event, and key.keysym.sym.
Event(type, button, x, y, sym) ==
    [type |-> type, button |-> button, x |-> x, y |-> y, sym |-> sym]

NoEvent == Event("none", 0, 0, 0, 0)

\* ------------------------------------------------------------------ kernel
calculateEscapeVelocity(mass, distance) ==
    Sqrt(Div(Mul(Mul(Two, G), mass), distance))

\* Lines 43-44.  The increment is 1e-5 / 202500 = 4.9e-11.
brightnessInc == Div(MAX_FORCE, ToFloat((SCREEN_WIDTH \div 2) * (SCREEN_HEIGHT \div 2)))
brightnessStep(b) == fmin(fmax(FAdd(b, brightnessInc), MIN_BRIGHTNESS), MAX_BRIGHTNESS)

\* Mutation: the direction is normalised by dist, the distance of line 39.
pairForceByDist(s, xj, yj, mj) ==
    LET dx == FSub(xj, s.x)
        dy == FSub(yj, s.y)
        dist == FAdd(Sqrt(FAdd(Mul(dx, dx), Mul(dy, dy))), EPS_DIST)
        escapeVelocity == calculateEscapeVelocity(mj, dist)
        distanceSquared == FAdd(FAdd(Mul(dx, dx), Mul(dy, dy)), EPS_SQ)
        force == Div(Mul(Mul(G, mj), s.mass), distanceSquared)
        ax == Div(Mul(force, Div(dx, dist)), s.mass)
        ay == Div(Mul(force, Div(dy, dist)), s.mass)
    IN  [dx |-> dx, dy |-> dy, dist |-> dist, escapeVelocity |-> escapeVelocity,
         distanceSquared |-> distanceSquared, force |-> force, ax |-> ax, ay |-> ay]

\* Lines 37-46 for one j # i: s is stars[i], (xj, yj, mj) what was read of stars[j].
\* root is sqrt(distanceSquared), which lines 45 and 46 each take of the same value.
pairForce(s, xj, yj, mj) ==
    LET dx == FSub(xj, s.x)
        dy == FSub(yj, s.y)
        dist == FAdd(Sqrt(FAdd(Mul(dx, dx), Mul(dy, dy))), EPS_DIST)
        escapeVelocity == calculateEscapeVelocity(mj, dist)
        distanceSquared == FAdd(FAdd(Mul(dx, dx), Mul(dy, dy)), EPS_SQ)
        force == Div(Mul(Mul(G, mj), s.mass), distanceSquared)
        root == Sqrt(distanceSquared)
        ax == Div(Mul(force, Div(dx, root)), s.mass)
        ay == Div(Mul(force, Div(dy, root)), s.mass)
    IN  [dx |-> dx, dy |-> dy, dist |-> dist, escapeVelocity |-> escapeVelocity,
         distanceSquared |-> distanceSquared, force |-> force, ax |-> ax, ay |-> ay]

\* Mutation: line 44 stores the clamped value in opacity.
applyForceOpacity(s, f) ==
    [s EXCEPT !.opacity = brightnessStep(s.brightness),
              !.vx = FAdd(@, Mul(f.ax, dt)),
              !.vy = FAdd(@, Mul(f.ay, dt))]

\* Lines 43-44 and 47-48, with f what pairForce gives for the pair.
applyForce(s, f) ==
    [s EXCEPT !.brightness = brightnessStep(@),
              !.vx = FAdd(@, Mul(f.ax, dt)),
              !.vy = FAdd(@, Mul(f.ay, dt))]

\* Lines 37-48 for one j # i: s is stars[i], (xj, yj, mj) what was read of stars[j].
pairUpdate(s, xj, yj, mj) == applyForce(s, pairForce(s, xj, yj, mj))

\* Lines 51 and 52.
advanceX(s) == [s EXCEPT !.x = FAdd(@, Div(Mul(s.vx, dt), Two))]
advanceY(s) == [s EXCEPT !.y = FAdd(@, Div(Mul(s.vy, dt), Two))]

\* ------------------------------------------------------------------- state
VARIABLES
    pc,          \* position of main: alloc, construct, loophead, poll, dispatch, sync, render, cleanup, exit, crashed
    buffer,      \* the Star buffer behind main's pointer: none (not asked for yet), live, failed, freed
    numStars,    \* number of Star slots, the kernel's numStars parameter
    stars,       \* the managed buffer: slot index -> Star
    tpc,         \* per thread of the launch grid: start, readx, pair, writex, writey, done (idle before the first launch)
    tj,          \* per thread: its loop variable j
    rx,          \* per thread: the value of stars[j].x it has read for the pair in progress
    quit, zoom, offsetX, offsetY, isDragging, lastMouseX, lastMouseY,
    event,       \* the SDL_Event of line 93: what SDL_PollEvent last stored in it, NoEvent when it holds nothing read
    \* history, not program state
    snap,        \* the buffer as it was when the current launch was made
    seen,        \* per thread: <<j, x, y, mass>> its last completed pair read of stars[j], or <<>>
    units,       \* per slot: how many threads have finished that slot's work in the current launch
    tick,        \* kernel launches made so far
    frames,      \* frames presented so far
    frame,       \* slot -> what the last render pass read of it, or <<>> before the first
    created,     \* slot -> the mass and opacity construction left in it
    events       \* input events handled so far

camera == <<quit, zoom, offsetX, offsetY, isDragging, lastMouseX, lastMouseY, event,
            events>>
device == <<tpc, tj, rx, seen, units>>
vars == <<pc, buffer, numStars, stars, tpc, tj, rx, quit, zoom, offsetX, offsetY,
          isDragging, lastMouseX, lastMouseY, event, snap, seen, units, tick, frames,
          frame, created, events>>

Slots == 0 .. (numStars - 1)

\* Mutation: the block count is rounded down.
numBlocksFloor == numStars \div numThreads

\* Line 87 and the launch configuration <<<numBlocks, numThreads>>> of line 134.
numBlocks == (numStars + numThreads - 1) \div numThreads
Grid == 0 .. (numBlocks * numThreads - 1)

\* ----------------------------------------------------- updateStars, thread t
\* t is blockIdx.x * blockDim.x + threadIdx.x (line 31).
\* The for loop's control, lines 35-36: from j, the next j that is not i.
skipSelf(i, j) == IF j = i THEN j + 1 ELSE j

\* Mutation: the loop is left after its first pair.
afterLoopControlOnce(t, j) ==
    LET j2 == skipSelf(t, j)
    IN  /\ tj' = [tj EXCEPT ![t] = j2]
        /\ tpc' = [tpc EXCEPT ![t] = IF j2 < numStars /\ tpc[t] = "start"
                                      THEN "readx" ELSE "writex"]

afterLoopControl(t, j) ==
    LET j2 == skipSelf(t, j)
    IN  /\ tj' = [tj EXCEPT ![t] = j2]
        /\ tpc' = [tpc EXCEPT ![t] = IF j2 < numStars THEN "readx" ELSE "writex"]

\* Line 34: a thread beyond the store does nothing.
inRange(t) == t < numStars

updateStars_enter(t) ==
    /\ tpc[t] = "start"
    /\ IF inRange(t)
       THEN afterLoopControl(t, 0)
       ELSE /\ tpc' = [tpc EXCEPT ![t] = "done"]
            /\ tj' = tj
    /\ UNCHANGED <<pc, buffer, numStars, stars, rx, camera, snap, seen, units,
                   tick, frames, frame, created>>

\* Line 37: the load of stars[j].x.
updateStars_readX(t) ==
    /\ tpc[t] = "readx"
    /\ rx' = [rx EXCEPT ![t] = stars[tj[t]].x]
    /\ tpc' = [tpc EXCEPT ![t] = "pair"]
    /\ UNCHANGED <<pc, buffer, numStars, stars, tj, camera, snap, seen, units,
                   tick, frames, frame, created>>

\* Mutation: the stores of lines 43-52 land in the neighbouring slot.
neighbourSlot(t) == (t + 1) % numStars

\* The slot a thread stores to in lines 43-52.
ownSlot(t) == t

\* Line 38: the load of stars[j].y, then lines 39-48 on the thread's own slot.
updateStars_pair(t) ==
    /\ tpc[t] = "pair"
    /\ LET j == tj[t]
           yj == stars[j].y
           mj == stars[j].mass
       IN  /\ stars' = [stars EXCEPT ![ownSlot(t)] = pairUpdate(stars[t], rx[t], yj, mj)]
           /\ seen' = [seen EXCEPT ![t] = <<j, rx[t], yj, mj>>]
           /\ afterLoopControl(t, j + 1)
    /\ rx' = [rx EXCEPT ![t] = Zero]
    /\ UNCHANGED <<pc, buffer, numStars, camera, snap, units, tick, frames, frame,
                   created>>

\* Line 51.
updateStars_writeX(t) ==
    /\ tpc[t] = "writex"
    /\ stars' = [stars EXCEPT ![ownSlot(t)] = advanceX(stars[t])]
    /\ tpc' = [tpc EXCEPT ![t] = "writey"]
    /\ UNCHANGED <<pc, buffer, numStars, tj, rx, camera, snap, seen, units, tick,
                   frames, frame, created>>

\* Line 52, the thread's last statement.
updateStars_writeY(t) ==
    /\ tpc[t] = "writey"
    /\ stars' = [stars EXCEPT ![ownSlot(t)] = advanceY(stars[t])]
    /\ tpc' = [tpc EXCEPT ![t] = "done"]
    /\ units' = [units EXCEPT ![t] = @ + 1]
    /\ UNCHANGED <<pc, buffer, numStars, tj, rx, camera, snap, seen, tick, frames,
                   frame, created>>

\* ------------------------------------------------------- main, lines 134-148
\* Line 134: the launch starts one thread per grid index.
launch ==
    /\ tpc' = [t \in Grid |-> "start"]
    /\ tj' = [t \in Grid |-> 0]
    /\ rx' = [t \in Grid |-> Zero]
    /\ seen' = [t \in Grid |-> <<>>]
    /\ units' = [k \in Slots |-> 0]
    /\ snap' = stars
    /\ tick' = tick + 1

\* The launches explored: a run in which quit has not been set is followed for
\* MaxTicks launches; once quit is set the pass in progress is the last and is
\* followed to its end.
launchExplored == tick < MaxTicks \/ quit

Dispatch ==
    /\ pc = "dispatch"
    /\ launchExplored
    /\ launch
    /\ pc' = "sync"
    /\ UNCHANGED <<buffer, numStars, stars, camera, frames, frame, created>>

\* Mutation: only the first thread of the launch is waited for.
firstThreadIdle == tpc[0] \in {"idle", "done"}

deviceIdle == \A t \in DOMAIN tpc : tpc[t] \in {"idle", "done"}

\* Mutation: the call returns without waiting for the device.
syncReturnsAtOnce == TRUE

\* Line 135: returns once every thread of the launch has finished.
syncReturns == deviceIdle

cudaDeviceSynchronize ==
    /\ pc = "sync"
    /\ syncReturns
    /\ pc' = "render"
    /\ UNCHANGED <<buffer, numStars, stars, device, camera, snap, tick, frames,
                   frame, created>>

\* Lines 137-147: the render pass reads x, y, brightness and opacity of every slot.
renderRead(s) == <<s.x, s.y, s.brightness, s.opacity>>

Render ==
    /\ pc = "render"
    /\ frame' = [k \in Slots |-> renderRead(stars[k])]
    /\ frames' = frames + 1
    /\ pc' = "loophead"
    /\ UNCHANGED <<buffer, numStars, stars, device, camera, snap, tick, created>>

\* Mutation: the loop test is inverted.
loopContinuesInverted == quit

\* Line 92: the test of while (!quit).
loopContinues == ~quit

LoopHead ==
    /\ pc = "loophead"
    /\ pc' = IF loopContinues THEN "poll" ELSE "cleanup"
    /\ UNCHANGED <<buffer, numStars, stars, device, camera, snap, tick, frames,
                   frame, created>>

\* Line 94: SDL_PollEvent finds the queue empty.
PollEmpty ==
    /\ pc = "poll"
    /\ pc' = "dispatch"
    /\ event' = NoEvent
    /\ UNCHANGED <<buffer, numStars, stars, device, quit, zoom, offsetX, offsetY,
                   isDragging, lastMouseX, lastMouseY, events, snap, tick, frames,
                   frame, created>>

\* Lines 150-155: cudaFree releases the buffer if there is one.
Cleanup ==
    /\ pc = "cleanup"
    /\ pc' = "exit"
    /\ buffer' = IF buffer = "live" THEN "freed" ELSE buffer
    /\ UNCHANGED <<numStars, stars, device, camera, snap, tick, frames, frame, created>>

Thread ==
    \E t \in DOMAIN tpc :
        \/ updateStars_enter(t)
        \/ updateStars_readX(t)
        \/ updateStars_pair(t)
        \/ updateStars_writeX(t)
        \/ updateStars_writeY(t)

\* ------------------------------------------- the kernel run one thread at a time
\* What updateStars leaves in the buffer when the threads in range run to completion
\* one after another in index order: thread i's loop, then its lines 51-52.
RECURSIVE serialPairs(_, _, _, _)
serialPairs(st, n, i, j) ==
    IF j >= n THEN st
    ELSE IF j = i THEN serialPairs(st, n, i, j + 1)
    ELSE serialPairs([st EXCEPT ![i] = pairUpdate(st[i], st[j].x, st[j].y, st[j].mass)],
                     n, i, j + 1)

serialUnit(st, n, i) ==
    LET a == serialPairs(st, n, i, 0)
    IN  [a EXCEPT ![i] = advanceY(advanceX(a[i]))]

RECURSIVE serialFrom(_, _, _)
serialFrom(st, n, i) == IF i >= n THEN st ELSE serialFrom(serialUnit(st, n, i), n, i + 1)

serialTick(st, n) == serialFrom(st, n, 0)

\* ------------------------------------------------- specification of the kernel
\* Values a float that was never written may hold: NaN, and values below (0),
\* inside (0.5) and above (2.5) the brightness range.
Uninit == {NaN, Zero, Half, TwoAndHalf}

\* The mass m with G * m = 20, and the mass with G * m = 1.
HeavyMass == Div(ToFloat(20), G)
LightMass == Div(ToFloat(1), G)

\* The first n of: a heavy particle at the origin, an orbiter at distance 1 on a
\* circular orbit, and light particles at rest at the origin.  From n = 3 on a
\* thread has two or more partners, so its loop over j goes round.
clusterStore(n, b) ==
    LET speed == Sqrt(Div(Mul(G, HeavyMass), One))
    IN  [k \in 0 .. (n - 1) |->
            IF k = 0 THEN Star(Zero, Zero, HeavyMass, Zero, Zero, b, One)
            ELSE IF k = 1 THEN Star(One, Zero, LightMass, Zero, speed, b, Half)
            ELSE Star(Zero, Zero, LightMass, Zero, Zero, b, Zero)]

\* Two particles of equal mass at rest at (-1, 0) and (1, 0).
symmetricStore(b) ==
    [k \in 0 .. 1 |->
        Star(IF k = 0 THEN FNeg(One) ELSE One, Zero, HeavyMass, Zero, Zero, b, One)]

\* Two particles of different mass at rest at the same position (1, 0).
coincidentStore(b) ==
    [k \in 0 .. 1 |->
        Star(One, Zero, IF k = 0 THEN HeavyMass ELSE LightMass, Zero, Zero, b, One)]

\* The store main builds when the first rand() of a particle is 0: radius 0 puts the
\* particle on the central one and line 80 divides by the radius, so that velocity
\* is infinite and vx = -velocity * sinf(0) is NaN.
radiusZeroStore(b) ==
    [k \in 0 .. 1 |->
        IF k = 0
        THEN Star(ToFloat(SCREEN_WIDTH \div 2), ToFloat(SCREEN_HEIGHT \div 2),
                  CENTRAL_MASS, Zero, Zero, b, b)
        ELSE Star(ToFloat(SCREEN_WIDTH \div 2), ToFloat(SCREEN_HEIGHT \div 2),
                  One, NaN, Inf, b, Zero)]

\* Every start brightness for the stores of one and two particles; one start
\* brightness for those of three and more, which are there when MaxStars is 3 or
\* more (PairStores has the stores of three and more particles at any MaxStars).
KernelStores ==
    {clusterStore(n, b) : n \in 1 .. 2, b \in Uninit}
        \cup {clusterStore(n, TwoAndHalf) : n \in 3 .. MaxStars}
        \cup {symmetricStore(Half), coincidentStore(Half), radiusZeroStore(Half)}

massOpacity(st) == [k \in DOMAIN st |-> <<st[k].mass, st[k].opacity>>]

cameraInit ==
    /\ quit = FALSE
    /\ zoom = One
    /\ offsetX = 0
    /\ offsetY = 0
    /\ isDragging = FALSE
    /\ lastMouseX = 0
    /\ lastMouseY = 0
    /\ event = NoEvent
    /\ events = 0

deviceInit ==
    /\ tpc = [t \in Grid |-> "idle"]
    /\ tj = [t \in Grid |-> 0]
    /\ rx = [t \in Grid |-> Zero]
    /\ seen = [t \in Grid |-> <<>>]
    /\ units = [k \in Slots |-> 0]
    /\ tick = 0
    /\ frames = 0
    /\ frame = [k \in Slots |-> <<>>]

\* The main loop about to launch the kernel on a store of the caller's choice.
InitKernel ==
    /\ pc = "dispatch"
    /\ buffer = "live"
    /\ stars \in KernelStores
    /\ numStars = Cardinality(DOMAIN stars)
    /\ snap = stars
    /\ created = massOpacity(stars)
    /\ cameraInit
    /\ deviceInit

NextKernel ==
    \/ (tick < KernelTicks /\ Dispatch)
    \/ Thread
    \/ cudaDeviceSynchronize
    \/ Render
    \/ LoopHead
    \/ PollEmpty

SpecKernel == InitKernel /\ [][NextKernel]_vars

\* Stores on which every thread in range has two or more partners j # i.
PairStores == {clusterStore(n, TwoAndHalf) : n \in 3 .. MaxPairStars}

\* The main loop about to launch the kernel on such a store.
InitPairs ==
    /\ pc = "dispatch"
    /\ buffer = "live"
    /\ stars \in PairStores
    /\ numStars = Cardinality(DOMAIN stars)
    /\ snap = stars
    /\ created = massOpacity(stars)
    /\ cameraInit
    /\ deviceInit

\* One launch (line 134) followed thread step by thread step to the next pass of
\* the main loop.
NextPairs ==
    \/ (tick = 0 /\ Dispatch)
    \/ Thread
    \/ cudaDeviceSynchronize
    \/ Render
    \/ LoopHead
    \/ PollEmpty

SpecPairs == InitPairs /\ [][NextPairs]_vars

\* --------------------------------------------------------- main, lines 56-91
\* Line 63: cudaMallocManaged succeeds or fails; its return value is not looked at.
Alloc ==
    /\ pc = "alloc"
    /\ \E got \in {"live", "failed"} : buffer' = got
    /\ pc' = "construct"
    /\ UNCHANGED <<numStars, stars, device, camera, snap, tick, frames, frame, created>>

\* What the rand() calls of lines 74-76 and 83 give for one particle: a radius in
\* [0, 225], an angle in [0, 2 pi] (as its cosf and sinf), an opacity in [0, 1] and a
\* mass in [1, 9000001].  With RAND_MAX = 2147483647 the three draws are
\*   rand() = 9544372, 0, 0, 0: radius 1, angle 0, opacity 0, mass 1;
\*   rand() = 19088744, 536870912, 2147483647, 2147483647: radius 2, angle pi / 2
\*     (whose cosf is -4.371139e-8, not 0), opacity 1, mass 9000001;
\*   rand() = 0, 0, 0, 0: radius 0, angle 0, opacity 0, mass 1.
CosHalfPi == <<0 - 12303662, -48>>
Draws ==
    {[radius |-> One, cos |-> One, sin |-> Zero, opacity |-> Zero, mass |-> One],
     [radius |-> ToFloat(2), cos |-> CosHalfPi, sin |-> One, opacity |-> One,
      mass |-> ToFloat(9000001)],
     [radius |-> Zero, cos |-> One, sin |-> Zero, opacity |-> Zero, mass |-> One]}

\* Lines 66-70: slot 0, whose brightness and opacity are left as they were.
constructCentral(s) ==
    [s EXCEPT !.x = ToFloat(SCREEN_WIDTH \div 2), !.y = ToFloat(SCREEN_HEIGHT \div 2),
              !.vx = Zero, !.vy = Zero, !.mass = CENTRAL_MASS]

\* Line 80.
circularSpeed(radius) == Sqrt(Div(Mul(G, CENTRAL_MASS), radius))

\* Lines 74-83: slot i >= 1, whose brightness is left as it was.
constructStar(s, d) ==
    LET velocity == circularSpeed(d.radius)
    IN  [s EXCEPT !.opacity = d.opacity,
                  !.x = FSub(FAdd(ToFloat(SCREEN_WIDTH \div 2), Mul(d.radius, d.cos)),
                             ToFloat(offsetX)),
                  !.y = FSub(FAdd(ToFloat(SCREEN_HEIGHT \div 2), Mul(d.radius, d.sin)),
                             ToFloat(offsetY)),
                  !.vx = Mul(FNeg(velocity), d.sin),
                  !.vy = Mul(velocity, d.cos),
                  !.mass = d.mass]

constructed(mem, draw) ==
    [k \in DOMAIN mem |-> IF k = 0 THEN constructCentral(mem[k])
                          ELSE constructStar(mem[k], draw[k])]

\* Lines 65-90, the buffer being there or the stores through the pointer landing in
\* memory the process may write.
Construct ==
    /\ pc = "construct"
    /\ \E draw \in [Slots \ {0} -> Draws] :
          /\ stars' = constructed(stars, draw)
          /\ created' = massOpacity(stars')
    /\ pc' = "loophead"
    /\ UNCHANGED <<buffer, numStars, device, camera, snap, tick, frames, frame>>

\* Line 66 with no buffer behind the pointer: the store faults.
ConstructFault ==
    /\ pc = "construct"
    /\ buffer = "failed"
    /\ pc' = "crashed"
    /\ UNCHANGED <<buffer, numStars, stars, device, camera, snap, tick, frames,
                   frame, created>>

\* -------------------------------------------------------- main, lines 93-132
SDLK_q == 113
SDLK_a == 97
SDL_BUTTON_LEFT == 1

\* Window positions <<x, y>> the mouse is seen at.
MousePoints == {<<SDLK_a, SDLK_a>>, <<SDLK_q, SDLK_q>>}

\* What SDL_PollEvent may hand to the loop.  x and y are button.x, button.y of a
\* button event, motion.x, motion.y of a motion event and wheel.x, wheel.y of a
\* wheel event; sym is key.keysym.sym of a key event.  3 is the right button, 32
\* the space key.
Events ==
    {Event("SDL_QUIT", 0, 0, 0, 0)}
        \cup {Event("SDL_MOUSEBUTTONDOWN", b, p[1], p[2], 0) :
                 b \in {SDL_BUTTON_LEFT, 3}, p \in MousePoints}
        \cup {Event("SDL_MOUSEBUTTONUP", b, SDLK_a, SDLK_a, 0) : b \in {SDL_BUTTON_LEFT, 3}}
        \cup {Event("SDL_MOUSEMOTION", 0, p[1], p[2], 0) : p \in MousePoints}
        \cup {Event("SDL_MOUSEWHEEL", 0, 0, y, 0) : y \in {1, SDLK_q}}
        \cup {Event("SDL_KEYDOWN", 0, 0, 0, k) : k \in {SDLK_q, SDLK_a, 32}}
        \cup {Event("SDL_KEYUP", 0, 0, 0, SDLK_q)}

\* event.key.keysym.sym as lines 124 and 127 read it.  SDL_Event is a union: in a
\* key event the member holds the key; the same four bytes (offset 20) are motion.x
\* in a motion event and wheel.y in a wheel event.
keysymSym(e) ==
    CASE e.type = "SDL_MOUSEMOTION" -> e.x
      [] e.type = "SDL_MOUSEWHEEL" -> e.y
      [] OTHER -> e.sym

\* Lines 124-129.
zoomKey(z, sym) ==
    IF sym = SDLK_q THEN Mul(z, ZOOM_STEP)
    ELSE IF sym = SDLK_a THEN Div(z, ZOOM_STEP)
    ELSE z

\* The cases whose statements reach lines 124-129: SDL_KEYDOWN, and SDL_MOUSEMOTION
\* and SDL_MOUSEWHEEL, which have no break of their own.
reachesZoom(e) == e.type \in {"SDL_MOUSEMOTION", "SDL_MOUSEWHEEL", "SDL_KEYDOWN"}

\* Lines 100 and 107.
leftDown(e) == e.type = "SDL_MOUSEBUTTONDOWN" /\ e.button = SDL_BUTTON_LEFT
leftUp(e) == e.type = "SDL_MOUSEBUTTONUP" /\ e.button = SDL_BUTTON_LEFT

\* Mutation: the motion case pans without looking at isDragging.
dragsAlways(e, dragging) == e.type = "SDL_MOUSEMOTION"

\* Lines 111-112: the motion case pans while a drag is in progress.
drags(e, dragging) == e.type = "SDL_MOUSEMOTION" /\ dragging

\* Lines 94-131 for one event e that SDL_PollEvent returns, SDL_GetMouseState
\* giving (mouseX, mouseY).
HandleEvent ==
    /\ pc = "poll"
    /\ \E e \in Events, mouse \in MousePoints :
          LET mouseX == mouse[1]
              mouseY == mouse[2]
              drag == drags(e, isDragging)
          IN  /\ event' = e
              /\ quit' = IF e.type = "SDL_QUIT" THEN TRUE ELSE quit
              /\ isDragging' = IF leftDown(e) THEN TRUE ELSE IF leftUp(e) THEN FALSE
                               ELSE isDragging
              /\ offsetX' = IF drag THEN offsetX + (mouseX - lastMouseX) ELSE offsetX
              /\ offsetY' = IF drag THEN offsetY + (mouseY - lastMouseY) ELSE offsetY
              /\ lastMouseX' = IF leftDown(e) THEN e.x ELSE IF drag THEN mouseX
                               ELSE lastMouseX
              /\ lastMouseY' = IF leftDown(e) THEN e.y ELSE IF drag THEN mouseY
                               ELSE lastMouseY
              /\ zoom' = IF reachesZoom(e) THEN zoomKey(zoom, keysymSym(e)) ELSE zoom
    /\ events' = events + 1
    /\ UNCHANGED <<pc, buffer, numStars, stars, device, snap, tick, frames, frame,
                   created>>

\* ------------------------------------------------------------- specification
\* Memory as cudaMallocManaged hands it over: brightness and opacity hold whatever
\* was there.
rawStore(n, u) == [k \in 0 .. (n - 1) |-> Star(Zero, Zero, Zero, Zero, Zero, u, u)]

Init ==
    /\ pc = "alloc"
    /\ buffer = "none"
    /\ numStars = MainStars
    /\ \E u \in Uninit : stars = rawStore(MainStars, u)
    /\ snap = stars
    /\ created = massOpacity(stars)
    /\ cameraInit
    /\ deviceInit

Next ==
    \/ Alloc
    \/ Construct
    \/ ConstructFault
    \/ LoopHead
    \/ (events < MaxEvents /\ HandleEvent)
    \/ PollEmpty
    \/ Dispatch
    \/ Thread
    \/ cudaDeviceSynchronize
    \/ Render
    \/ Cleanup

Spec == Init /\ [][Next]_vars

\* ------------------------------------------ specifications of the main loop
\* The main loop entered at line 92 on the store st.
InitLoop(st) ==
    /\ pc = "loophead"
    /\ buffer = "live"
    /\ stars = st
    /\ numStars = Cardinality(DOMAIN st)
    /\ snap = stars
    /\ created = massOpacity(stars)
    /\ cameraInit
    /\ deviceInit

\* The loop with longer runs of events than Spec follows, and KernelTicks launches.
NextCamera ==
    \/ LoopHead
    \/ (events < CameraEvents /\ HandleEvent)
    \/ PollEmpty
    \/ (tick < KernelTicks /\ Dispatch)
    \/ Thread
    \/ cudaDeviceSynchronize
    \/ Render
    \/ Cleanup

SpecCamera == InitLoop(clusterStore(2, Half)) /\ [][NextCamera]_vars

\* The loop as Spec follows it, from its entry to the exit of main.
NextLoop ==
    \/ LoopHead
    \/ (events < MaxEvents /\ HandleEvent)
    \/ PollEmpty
    \/ Dispatch
    \/ Thread
    \/ cudaDeviceSynchronize
    \/ Render
    \/ Cleanup

\* The process and the device keep running: while a step is possible, one is taken.
\* (Main and the kernel's threads are never both able to step: main waits in
\* cudaDeviceSynchronize while threads run.)  The store is two particles at rest at
\* one position: its launches run every statement of the kernel and leave the store
\* as it was, so the runs differ in their control flow and events only.
SpecLive == InitLoop(coincidentStore(Half)) /\ [][NextLoop]_vars /\ WF_vars(NextLoop)

\* ==================================================================== claims
noUnitRunning == \A t \in DOMAIN tpc : tpc[t] \in {"idle", "done"}

\* C1 (as claimed): within a launch, whatever a thread has read of another slot j
\* (x, y, mass) is what slot j held when the launch was made.
C1_ReadsAreOfTheLaunchSnapshot ==
    \A t \in DOMAIN tpc :
        /\ tpc[t] = "pair" => rx[t] = snap[tj[t]].x
        /\ seen[t] # <<>> =>
              /\ seen[t][2] = snap[seen[t][1]].x
              /\ seen[t][3] = snap[seen[t][1]].y
              /\ seen[t][4] = snap[seen[t][1]].mass

\* C2 (as claimed): whatever the interleaving of the threads, the launch leaves the
\* buffer that the threads run one after another in index order leave.
C2_LaunchResultIsScheduleIndependent ==
    pc = "render" => stars = serialTick(snap, numStars)

\* C3: a step of thread t changes no slot other than slot t, and a step of a thread
\* whose index is not below numStars changes no slot at all.
C3_ThreadWritesOwnSlotOnly ==
    [][\A t \in DOMAIN tpc :
          tpc'[t] # tpc[t] => \A k \in Slots : k # t => stars'[k] = stars[k]]_vars

\* C3 witness: a launch on two or more slots is over; a thread in range has changed
\* its slot and a thread out of range has run.
C3_Witness ==
    /\ numStars >= 2
    /\ \E t \in Slots : tpc[t] = "done" /\ stars[t] # snap[t]
    /\ \E t \in DOMAIN tpc : t >= numStars /\ tpc[t] = "done"

\* C4: while main is in the render pass no thread of any launch is running, and
\* the frame a pass has drawn is the buffer as the finished launch left it.
C4_RenderReadsAfterBarrier ==
    /\ pc = "render" => noUnitRunning
    /\ (frames > 0 /\ pc \in {"loophead", "poll", "dispatch", "cleanup", "exit"})
          => frame = [k \in Slots |-> renderRead(stars[k])]

\* C4 witness: main is in the render pass of the second launch, which moved a particle.
C4_Witness ==
    /\ pc = "render"
    /\ tick = 2
    /\ \E k \in Slots : stars[k].x # snap[k].x

\* C5: a launch is made only when every thread of the launch before it has finished
\* and every slot's work of that launch is complete.
C5_LaunchesAreSequential ==
    [][tick' = tick + 1 =>
          /\ noUnitRunning
          /\ tick >= 1 => \A k \in Slots : units[k] = 1]_vars

\* C5 witness: threads of the second launch are at work.
C5_Witness ==
    /\ tick = 2
    /\ \E t \in DOMAIN tpc : tpc[t] = "pair"

\* C6 (as claimed): once a launch is over, every brightness is in [0.1, 1.0].
inBrightnessRange(b) == FLe(MIN_BRIGHTNESS, b) /\ FLe(b, MAX_BRIGHTNESS)

C6_BrightnessClampedAfterTick ==
    (pc = "render" /\ tick >= 1) => \A k \in Slots : inBrightnessRange(stars[k].brightness)

\* C7: from construction on, every slot holds the mass and the opacity construction
\* left in it.
C7_MassAndOpacityNeverWritten ==
    pc \notin {"alloc", "construct", "crashed"} => massOpacity(stars) = created

\* C7 witness: two launches are over and the last changed a velocity.
C7_Witness ==
    /\ pc = "loophead"
    /\ tick = 2
    /\ \E k \in Slots : stars[k].vx # snap[k].vx

\* C8 (as claimed): a launch on two particles of equal mass at rest at (-r, 0) and
\* (r, 0) leaves them with opposite velocities along x, each towards the other.
symmetricAtRest(st) ==
    /\ DOMAIN st = 0 .. 1
    /\ st[0].mass = st[1].mass
    /\ st[0].x = FNeg(st[1].x) /\ FLt(Zero, st[1].x)
    /\ \A k \in 0 .. 1 : st[k].y = Zero /\ st[k].vx = Zero /\ st[k].vy = Zero

C8_SymmetricPairStaysSymmetric ==
    (pc = "render" /\ symmetricAtRest(snap)) =>
        /\ stars[0].vx = FNeg(stars[1].vx)
        /\ FLt(Zero, stars[0].vx)
        /\ stars[0].vy = Zero /\ stars[1].vy = Zero

\* C9: every pass of the main loop makes one launch; the launch grid holds every
\* slot index; when the barrier lets main through, every slot's work has been done
\* once, and at no time more than once.
C9_OneLaunchCoversEverySlotOnce ==
    /\ Slots \subseteq Grid
    /\ \A k \in Slots : units[k] <= 1
    /\ pc = "render" => \A k \in Slots : units[k] = 1
    /\ pc \in {"sync", "render"} => tick = frames + 1
    /\ pc \in {"loophead", "poll", "dispatch", "cleanup", "exit"} => tick = frames

\* C9 witness: the barrier of the second launch has let main through.
C9_Witness ==
    /\ pc = "render"
    /\ tick = 2
    /\ frames = 1
    /\ \A k \in Slots : units[k] = 1

\* C10 (as claimed): with no buffer, main goes no further than the allocation: it
\* writes no initial state, makes no launch and draws no frame.
C10_NoBufferNoRun ==
    buffer = "failed" =>
        /\ pc \in {"construct", "crashed"}
        /\ tick = 0
        /\ frames = 0

\* C11: the main loop leaves for the cleanup only with quit set, and quit is set only
\* by the event polling between two launches, with no thread running; a pass that is
\* not left makes its launch and comes back to the loop test; the buffer is freed
\* and the process is at its exit only when no thread of any launch is running; and
\* once quit is set the process reaches its exit.
C11_RunsUntilQuitThenFrees ==
    /\ [](pc \in {"cleanup", "exit"} => quit /\ noUnitRunning)
    /\ [](buffer = "freed" => pc = "exit" /\ noUnitRunning)
    /\ [][quit' # quit => pc = "poll" /\ pc' = "poll" /\ noUnitRunning]_vars
    /\ \A n \in 0 .. (MaxTicks - 1) :
          (pc = "poll" /\ tick = n) ~> (pc = "loophead" /\ tick = n + 1)
    /\ quit ~> pc = "exit"

\* C11 witness: quit was seen after a launch; the pass it was seen in made its
\* launch and drew its frame, and then the buffer was freed.
C11_Witness ==
    /\ pc = "exit"
    /\ buffer = "freed"
    /\ quit
    /\ tick = 2
    /\ frames = 2

\* C12 (as claimed): once the store is constructed, the opacity of every slot, slot
\* 0 included, is a value in [0, 1].
C12_EveryOpacityAssignedInRange ==
    pc \notin {"alloc", "construct", "crashed"} =>
        \A k \in Slots : FLe(Zero, stars[k].opacity) /\ FLe(stars[k].opacity, One)

\* C13 (as claimed): when a launch is over, no slot's brightness is below what it
\* was when the launch was made.
C13_BrightnessNeverDecreases ==
    (pc = "render" /\ tick >= 1) =>
        \A k \in Slots :
            (snap[k].brightness # NaN /\ stars[k].brightness # NaN)
                => FLe(snap[k].brightness, stars[k].brightness)

\* The step in which thread t completes a pair of its loop (lines 37-48).
pairStepOf(t) == tpc[t] = "pair" /\ tpc'[t] # "pair"

\* The partners j # i of thread i in the order of the loop of lines 35-36.
firstPartner(i) == IF i = 0 THEN 1 ELSE 0
nextPartner(i, j) == IF j + 1 = i THEN j + 2 ELSE j + 1
lastPartner(i) == IF i = numStars - 1 THEN numStars - 2 ELSE numStars - 1

\* C14: a thread changes the position of its slot only in its two last stores,
\* after its loop over j has ended and the pair with its last partner j # i is
\* done; the pairs of a thread go through every j # i in rising order, none twice
\* and none left out; each pair adds the pair's acceleration times the full dt to
\* the velocity and leaves the position alone; when the launch is over every
\* slot's work was done once and its position is the position of the launch's
\* start plus half of (final velocity times dt).
C14_PositionWrittenOnceAfterVelocity ==
    /\ [][\A t \in Slots :
            /\ (stars'[t].x # stars[t].x \/ stars'[t].y # stars[t].y)
                  => /\ tpc[t] \in {"writex", "writey"}
                     /\ tj[t] >= numStars
                     /\ seen[t] # <<>> /\ seen[t][1] = lastPartner(t)
                     /\ stars'[t].vx = stars[t].vx /\ stars'[t].vy = stars[t].vy
            /\ pairStepOf(t)
                  => LET f == pairForce(stars[t], rx[t], stars[tj[t]].y, stars[tj[t]].mass)
                     IN  /\ tj[t] = IF seen[t] = <<>> THEN firstPartner(t)
                                     ELSE nextPartner(t, seen[t][1])
                         /\ tj[t] \in Slots \ {t}
                         /\ stars'[t].x = stars[t].x /\ stars'[t].y = stars[t].y
                         /\ stars'[t].vx = FAdd(stars[t].vx, Mul(f.ax, dt))
                         /\ stars'[t].vy = FAdd(stars[t].vy, Mul(f.ay, dt))]_vars
    /\ [](pc = "render" =>
            \A k \in Slots :
                /\ units[k] = 1
                /\ stars[k].x = FAdd(snap[k].x, Div(Mul(stars[k].vx, dt), ToFloat(2)))
                /\ stars[k].y = FAdd(snap[k].y, Div(Mul(stars[k].vy, dt), ToFloat(2))))

\* C14 witness: in a launch on three or more particles one thread has gone through
\* all its partners, two or more, and has written a position that differs from the
\* launch's start with a velocity that differs too, while another thread, whose
\* first pair has changed its velocity, is on its way round the loop to its next
\* partner with its position as the launch found it.
C14_Witness ==
    /\ numStars >= 3
    /\ \E t \in Slots, u \in Slots :
          /\ tpc[t] = "done"
          /\ seen[t] # <<>> /\ seen[t][1] = lastPartner(t)
          /\ stars[t].vx # snap[t].vx /\ stars[t].x # snap[t].x
          /\ tpc[u] = "readx"
          /\ seen[u] # <<>> /\ seen[u][1] = firstPartner(u)
          /\ tj[u] = nextPartner(u, firstPartner(u))
          /\ (stars[u].vx # snap[u].vx \/ stars[u].vy # snap[u].vy)
          /\ stars[u].x = snap[u].x /\ stars[u].y = snap[u].y

\* C15 (as claimed): a thread never evaluates the pair (i, i); in every pair it
\* evaluates, the softened squared distance, its square root and the softened
\* distance handed to calculateEscapeVelocity are above zero; and a pair at zero
\* separation leaves the velocity as it was.
C15_DivisorsPositiveAndCoincidentPairInert ==
    /\ [](\A t \in DOMAIN tpc :
            /\ tpc[t] \in {"readx", "pair"} => t \in Slots /\ tj[t] \in Slots \ {t}
            /\ seen[t] # <<>> => seen[t][1] # t
            /\ tpc[t] = "pair"
                  => LET f == pairForce(stars[t], rx[t], stars[tj[t]].y, stars[tj[t]].mass)
                     IN  /\ FLt(Zero, f.distanceSquared)
                         /\ FLt(Zero, Sqrt(f.distanceSquared))
                         /\ FLt(Zero, f.dist))
    /\ [][\A t \in Slots :
            (pairStepOf(t) /\ rx[t] = stars[t].x /\ stars[tj[t]].y = stars[t].y)
                => stars'[t].vx = stars[t].vx /\ stars'[t].vy = stars[t].vy]_vars

\* The velocity of s after the pair with (xj, yj, mj): the force is divided by the
\* softened squared distance; the direction is delta over norm(dx, dy).
velocityAfter(s, xj, yj, mj, norm(_, _)) ==
    LET dx == FSub(xj, s.x)
        dy == FSub(yj, s.y)
        d2 == FAdd(FAdd(Mul(dx, dx), Mul(dy, dy)), EPS_SQ)
        F == Div(Mul(Mul(G, mj), s.mass), d2)
    IN  <<FAdd(s.vx, Mul(Div(Mul(F, Div(dx, norm(dx, dy))), s.mass), dt)),
          FAdd(s.vy, Mul(Div(Mul(F, Div(dy, norm(dx, dy))), s.mass), dt))>>

\* sqrt(dx^2 + dy^2) + eps': epsilon added after the root.
softenedAfterRoot(dx, dy) == FAdd(Sqrt(FAdd(Mul(dx, dx), Mul(dy, dy))), EPS_DIST)

\* sqrt(dx^2 + dy^2 + eps): epsilon inside the root.
rootOfSoftenedSquare(dx, dy) == Sqrt(FAdd(FAdd(Mul(dx, dx), Mul(dy, dy)), EPS_SQ))

\* C16 (as claimed): each pair changes the velocity by (F / m_i) * (delta / d') * dt
\* with F divided by d2 = dx^2 + dy^2 + eps and d' = sqrt(dx^2 + dy^2) + eps'.
C16_DirectionNormalisedByDist ==
    [][\A t \in Slots :
          pairStepOf(t) =>
              <<stars'[t].vx, stars'[t].vy>> =
                  velocityAfter(stars[t], rx[t], stars[tj[t]].y, stars[tj[t]].mass,
                                softenedAfterRoot)]_vars

\* C16 (amended): each pair changes the velocity by F * (delta / sqrt(d2)) / m_i * dt
\* with F divided by d2 = dx^2 + dy^2 + eps: the direction is normalised by the root
\* of the same softened squared distance; and the velocity is all the pair changes
\* besides the brightness, so d' = sqrt(dx^2 + dy^2) + eps' and the escape velocity
\* computed from it reach no field of the particle.
C16_DirectionNormalisedByRootOfSoftenedSquare ==
    [][\A t \in Slots :
          pairStepOf(t) =>
              /\ <<stars'[t].vx, stars'[t].vy>> =
                    velocityAfter(stars[t], rx[t], stars[tj[t]].y, stars[tj[t]].mass,
                                  rootOfSoftenedSquare)
              /\ [stars'[t] EXCEPT !.vx = Zero, !.vy = Zero, !.brightness = Zero]
                    = [stars[t] EXCEPT !.vx = Zero, !.vy = Zero, !.brightness = Zero]]_vars

\* C16 witness: a thread has completed a pair with a particle away from it along x
\* and along y, and its velocity has changed on both axes.
C16_Witness ==
    \E t \in Slots :
        /\ tpc[t] = "writex"
        /\ seen[t] # <<>>
        /\ seen[t][2] # stars[t].x /\ seen[t][3] # stars[t].y
        /\ stars[t].vx # snap[t].vx /\ stars[t].vy # snap[t].vy

\* C17 (as claimed): a step changes zoom only if the event it handles is a key-down
\* of q, and zoom is multiplied by 1.01, or a key-down of a, and zoom is divided by
\* 1.01.
C17_ZoomChangesOnlyOnKeyDownQA ==
    [][zoom' # zoom =>
          /\ events' = events + 1
          /\ event'.type = "SDL_KEYDOWN"
          /\ \/ event'.sym = SDLK_q /\ zoom' = Mul(zoom, ZOOM_STEP)
             \/ event'.sym = SDLK_a /\ zoom' = Div(zoom, ZOOM_STEP)]_vars

\* C18 (as claimed): whatever the store size, every brightness a render pass has
\* read is in [0.1, 1.0].
C18_RenderNeverReadsUnclampedBrightness ==
    frames > 0 => \A k \in Slots : inBrightnessRange(frame[k][3])

\* C19: dragging is false before the first event, becomes true on a left-button-down
\* event, false on a left-button-up event and changes on nothing else; the pan
\* offset changes only in a step that handles a mouse-motion event while dragging
\* is true; and a step that handles an event leaves the store as it was.
C19_PanOnlyWhileDragging ==
    /\ [](events = 0 => ~isDragging /\ offsetX = 0 /\ offsetY = 0)
    /\ [][/\ (offsetX' # offsetX \/ offsetY' # offsetY)
                => /\ events' = events + 1
                   /\ event'.type = "SDL_MOUSEMOTION"
                   /\ isDragging
          /\ events' # events
                => /\ stars' = stars
                   /\ isDragging' =
                        IF event'.type = "SDL_MOUSEBUTTONDOWN"
                              /\ event'.button = SDL_BUTTON_LEFT THEN TRUE
                        ELSE IF event'.type = "SDL_MOUSEBUTTONUP"
                              /\ event'.button = SDL_BUTTON_LEFT THEN FALSE
                        ELSE isDragging
          /\ events' = events => isDragging' = isDragging]_vars

\* C19 witness: after a launch that moved a particle, a left-button-down, a motion
\* and a left-button-up were handled; the motion panned the view.
C19_Witness ==
    /\ events = 3
    /\ event.type = "SDL_MOUSEBUTTONUP" /\ event.button = SDL_BUTTON_LEFT
    /\ ~isDragging
    /\ offsetX # 0 /\ offsetY # 0
    /\ tick = 1
    /\ \E k \in Slots : stars[k] # snap[k]
====
